---- MODULE Spec2Model ----
(***************************************************************************)
(* Model of the rolling-file log writer (package logwriter): the inventory *)
(* scan collectFiles, the retention ring, the rotation engine              *)
(* (open / flushwm / rotate / write), the worker ioproc and the callers'   *)
(* Write and Sync.                                                         *)
(*                                                                         *)
(* Bytes are modelled individually: byte k of the n-th buffer accepted by  *)
(* Write is <<n, k>>, so that a file's content tells which buffers reached *)
(* it, in which order, and whether one was split, duplicated or dropped.   *)
(***************************************************************************)
EXTENDS Integers, Sequences, FiniteSets, TLC

\* ------------------------------------------------------------- bounds

\* Write calls accepted during one run.
MaxWrites == 3
\* Longest buffer handed to Write.
MaxLen == 4
\* Sync calls started during one run.
MaxSyncs == 2
\* Goroutines that call Sync.
NCallers == 2
\* I/O operations the environment lets fail during one run.
MaxFaults == 1
\* Largest sequence id of a rotated file left by an earlier run.
MaxOld == 3
\* Largest retention count (maxfiles) a Writer is built with.
MaxKeep == 2
\* Capacity of the channel wq (queueCapacity = 4096 in the source, scaled).
QueueCap == 2
\* Size limit of one file (the limit argument of New, scaled).
Limit == 3
\* len(w.wmbuf): syscall.Getpagesize() in the source, scaled.
WmSize == 2

\* -------------------------------------------------------------- dates

\* The calendar dates time.Now().Date() walks through, in order.  The first
\* and the third share their day of month.
DateSeq ==
    << <<2024, 1, 1>>, <<2024, 1, 2>>, <<2024, 2, 1>> >>

\* The date on which earlier runs rotated the files found at start-up.
OldDate == <<2023, 12, 31>>

\* -------------------------------------------------------------- names

\* A directory entry's name, by what collectFiles reads of it: whether it
\* starts with the base name of the log path, the date it carries, whether
\* the text after its last '.' is a decimal integer, and that integer.
Name(pfx, date, num, id) ==
    [pfx |-> pfx, date |-> date, num |-> num, id |-> id]

\* w.path: the active file.  Its suffix ("log") is no integer.
ActivePath == Name(TRUE, <<0, 0, 0>>, FALSE, 0)

\* The empty string: no path.
NoPath == Name(FALSE, <<0, 0, 0>>, FALSE, 0)

\* w.path + fmt.Sprintf(".%04d-%02d-%02d.%d", year, month, day, id): the
\* padded fields and the id after the last '.' determine the name.
RotName(year, month, day, id) == Name(TRUE, <<year, month, day>>, TRUE, id)

\* ---------------------------------------------------------- file system

\* os.Rename(from, to): moves the file, replacing a regular file at `to`;
\* fails (the caller ignores it) when `from` does not exist or `to` is a
\* directory.  disk maps the names of regular files to their bytes.
Rename(disk, dirs, from, to) ==
    IF from \notin DOMAIN disk \/ to \in dirs
    THEN disk
    ELSE [n \in (DOMAIN disk \ {from}) \cup {to} |->
             IF n = to THEN disk[from] ELSE disk[n]]

\* os.Remove(path) of a regular file.
Remove(disk, path) == [n \in DOMAIN disk \ {path} |-> disk[n]]

\* An O_APPEND write of bytes to the active file.
AppendFile(disk, bytes) ==
    [disk EXCEPT ![ActivePath] = disk[ActivePath] \o bytes]

\* ------------------------------------------------------------- scanner

fileinfo(id, path) == [id |-> id, path |-> path]

\* The zero value of fileinfo, which fills unused ring slots.
ZeroInfo == fileinfo(0, NoPath)

Max(S) == CHOOSE x \in S : \A y \in S : y <= x

\* sort.Slice(filist, by id): the records of S in ascending id order.
RECURSIVE SortById(_)
SortById(S) ==
    IF S = {} THEN << >>
    ELSE LET m == CHOOSE x \in S : \A y \in S : x.id <= y.id
         IN  <<m>> \o SortById(S \ {m})

\* Capacity of a slice made with capacity c after appending n elements one
\* at a time: append doubles the capacity whenever the slice is full.
RECURSIVE GrowCap(_, _)
GrowCap(c, n) ==
    IF n <= c THEN c
    ELSE GrowCap(IF c = 0 THEN 1 ELSE 2 * c, n)

\* The entries collectFiles counts: those with the prefix whose suffix is an
\* integer, that stat and are no directory.  entries is a set of records
\* [name, isdir, statok].
MatchingByNameOnly(entries) ==
    {e \in entries : e.name.pfx /\ e.name.num}

Matching(entries) ==
    {e \in entries : e.name.pfx /\ e.name.num /\ e.statok /\ ~e.isdir}

\* collectFiles(dir, prefix, maxfiles): the retained records (the last
\* maxfiles by ascending id), the capacity of the slice that holds them and
\* the largest id among all the entries counted.
collectFilesMaxOfKept(entries, maxfiles) ==
    LET found == IF maxfiles > 0
                 THEN {fileinfo(e.name.id, e.name) : e \in Matching(entries)}
                 ELSE {}
        sorted == SortById(found)
        head == IF Len(sorted) - maxfiles < 0 THEN 0 ELSE Len(sorted) - maxfiles
        kept == SubSeq(sorted, head + 1, Len(sorted))
    IN  [filist |-> kept,
         cap |-> GrowCap(IF maxfiles > 0 THEN maxfiles ELSE 0, Len(sorted)) - head,
         maxid |-> IF kept = << >> THEN 0 ELSE kept[Len(kept)].id]

collectFiles(entries, maxfiles) ==
    LET ids == {e.name.id : e \in Matching(entries)}
        found == IF maxfiles > 0
                 THEN {fileinfo(e.name.id, e.name) : e \in Matching(entries)}
                 ELSE {}
        sorted == SortById(found)
        head == IF Len(sorted) - maxfiles < 0 THEN 0 ELSE Len(sorted) - maxfiles
    IN  [filist |-> SubSeq(sorted, head + 1, Len(sorted)),
         cap |-> GrowCap(IF maxfiles > 0 THEN maxfiles ELSE 0, Len(sorted)) - head,
         maxid |-> IF \E i \in ids : i > 0 THEN Max(ids) ELSE 0]

\* ------------------------------------------------------ retention ring

\* Writer.push(id, name): evicts the oldest live record when maxfiles are
\* live, stores the new record at the tail, returns the evicted path ("" when
\* none).  ring slots are numbered from 0 in the source, from 1 here.
pushFullByRingLength(w, id, name) ==
    LET full == Len(w.ring) + w.head = w.tail
        pop == IF full THEN w.ring[(w.head % Len(w.ring)) + 1].path ELSE NoPath
        head == IF full THEN w.head + 1 ELSE w.head
    IN  [w |-> [w EXCEPT !.head = head,
                         !.ring[(w.tail % Len(w.ring)) + 1] = fileinfo(id, name),
                         !.tail = w.tail + 1],
         pop |-> pop]

push(w, id, name) ==
    LET full == w.maxfiles + w.head = w.tail
        pop == IF full THEN w.ring[(w.head % Len(w.ring)) + 1].path ELSE NoPath
        head == IF full THEN w.head + 1 ELSE w.head
    IN  [w |-> [w EXCEPT !.head = head,
                         !.ring[(w.tail % Len(w.ring)) + 1] = fileinfo(id, name),
                         !.tail = w.tail + 1],
         pop |-> pop]

\* ----------------------------------------------------- rotation engine
\* Each operator is a function of its arguments; where one hands its result
\* to the next, the result is named as the one element of a set, so that it
\* is computed once.
\* The engine's operators take and return a record s:
\*   s.w       the Writer's fields owned by the worker
\*   s.disk    the regular files of the log directory (name -> bytes)
\*   s.dirs    the names that are directories
\*   s.err     the error the operation returns (FALSE: nil)
\*   s.rotlog  one record per rotation performed (history)
\*   s.dayrot  whether the last write found the day changed (history)
\*   s.cum     nwrote as the size test of the last write saw it (history)
\* fault names the kind of I/O operation the environment fails during the
\* step: "open" (os.OpenFile and os.MkdirAll), "flush" (the write of the
\* staging buffer), "write" (the write of a buffer), "sync" (f.Sync).

\* Writer.open(year, month, day)
openNoWatermark(s, date, fault) ==
    IF fault = "open"
    THEN [s EXCEPT !.w.f = FALSE, !.err = TRUE]
    ELSE LET disk == IF ActivePath \in DOMAIN s.disk
                     THEN s.disk
                     ELSE [n \in DOMAIN s.disk \cup {ActivePath} |->
                              IF n = ActivePath THEN << >> ELSE s.disk[n]]
         IN  [s EXCEPT !.disk = disk,
                       !.w.f = TRUE,
                       !.w.nwrote = Len(disk[ActivePath]),
                       !.err = FALSE]

open(s, date, fault) ==
    IF fault = "open"
    THEN [s EXCEPT !.w.f = FALSE, !.err = TRUE]
    ELSE LET disk == IF ActivePath \in DOMAIN s.disk
                     THEN s.disk
                     ELSE [n \in DOMAIN s.disk \cup {ActivePath} |->
                              IF n = ActivePath THEN << >> ELSE s.disk[n]]
         IN  [s EXCEPT !.disk = disk,
                       !.w.f = TRUE,
                       !.w.year = date[1],
                       !.w.month = date[2],
                       !.w.day = date[3],
                       !.w.nwrote = Len(disk[ActivePath]),
                       !.err = FALSE]

\* Writer.flushwm(): writes wmbuf[:nwm] to the file and empties the staging
\* buffer, whether or not the write succeeded.
flushwmKeepsStaged(s, fault) ==
    IF fault = "flush" \/ ~s.w.f
    THEN [s EXCEPT !.w.nwm = 0, !.err = TRUE]
    ELSE [s EXCEPT !.disk = AppendFile(s.disk, SubSeq(s.w.wmbuf, 1, s.w.nwm)),
                   !.err = FALSE]

flushwm(s, fault) ==
    IF fault = "flush" \/ ~s.w.f
    THEN [s EXCEPT !.w.nwm = 0, !.err = TRUE]
    ELSE [s EXCEPT !.disk = AppendFile(s.disk, SubSeq(s.w.wmbuf, 1, s.w.nwm)),
                   !.w.nwm = 0,
                   !.err = FALSE]

\* The part of rotate after the flush: next id, rename, retention, reopen.
rename(s, date, fault) ==
    LET id == s.w.id + 1
        newpath == RotName(s.w.year, s.w.month, s.w.day, id)
        moved == Rename(s.disk, s.dirs, ActivePath, newpath)
        pushed == IF s.w.maxfiles > 0
                  THEN push([s.w EXCEPT !.id = id], id, newpath)
                  ELSE [w |-> [s.w EXCEPT !.id = id], pop |-> NoPath]
        entry == [id |-> id,
                  path |-> newpath,
                  on |-> date,
                  data |-> IF ActivePath \in DOMAIN s.disk
                           THEN s.disk[ActivePath] ELSE << >>,
                  clash |-> newpath \in DOMAIN s.disk \/ newpath \in s.dirs,
                  removed |-> pushed.pop]
    IN  CHOOSE r \in {open(renamed, date, fault) :
                          renamed \in {[s EXCEPT
                              !.w = pushed.w,
                              !.disk = IF pushed.pop # NoPath
                                       THEN Remove(moved, pushed.pop) ELSE moved,
                              !.rotlog = Append(s.rotlog, entry)]}} : TRUE

\* rotate, lines 100-105 and on: flushed is the state after the flush of the
\* staging buffer; its error ends the rotation.
renameFlushed(flushed, date, fault) ==
    IF flushed.err THEN flushed ELSE rename(flushed, date, fault)

\* Writer.rotate(year, month, day)
rotateNoFlush(s, date, fault) == rename(s, date, fault)

rotate(s, date, fault) ==
    CHOOSE r \in {renameFlushed(flushed, date, fault) :
                      flushed \in {IF s.w.nwm > 0 THEN flushwm(s, fault)
                                   ELSE [s EXCEPT !.err = FALSE]}} : TRUE

\* copy(w.wmbuf[w.nwm:], p): the staging buffer after the copy, and the
\* number of bytes copied.
copy(wmbuf, nwm, p) ==
    LET n == IF Len(p) < Len(wmbuf) - nwm THEN Len(p) ELSE Len(wmbuf) - nwm
    IN  [buf |-> [i \in 1..Len(wmbuf) |->
                     IF nwm < i /\ i <= nwm + n THEN p[i - nwm] ELSE wmbuf[i]],
         n |-> n]

\* The day test of write: only the day of month is compared.
dayChanged(w, date) == w.DailyRotate /\ date[3] # w.day

\* The size test of write, after len(p) has been added to nwrote.
overLimitOrEqual(w) == w.limit > 0 /\ w.nwrote >= w.limit

overLimit(w) == w.limit > 0 /\ w.nwrote > w.limit

\* write, lines 165-172: p is staged in the merge buffer when it fits there,
\* and written to the file otherwise.  flushed is the state after the flush
\* of line 159, if any.
stage(flushed, p, fault) ==
    IF flushed.err THEN flushed
    ELSE IF flushed.w.writeMerge /\ Len(p) <= Len(flushed.w.wmbuf)
    THEN [flushed EXCEPT
             !.w.wmbuf = copy(flushed.w.wmbuf, flushed.w.nwm, p).buf,
             !.w.nwm = flushed.w.nwm + copy(flushed.w.wmbuf, flushed.w.nwm, p).n]
    ELSE IF fault = "write"
    THEN [flushed EXCEPT !.err = TRUE]
    ELSE [flushed EXCEPT !.disk = AppendFile(flushed.disk, p)]

\* write, lines 157-172: the staging buffer is flushed first when p does not
\* fit behind the bytes staged.
put(s, p, fault) ==
    CHOOSE r \in {stage(flushed, p, fault) :
                      flushed \in {IF /\ s.w.writeMerge
                                      /\ s.w.nwm # 0
                                      /\ s.w.nwm + Len(p) > Len(s.w.wmbuf)
                                   THEN flushwm(s, fault)
                                   ELSE [s EXCEPT !.err = FALSE]}} : TRUE

\* write, lines 150-173: a rotation that failed ends the write.
putSized(sized, p, fault) ==
    IF sized.err THEN sized ELSE put(sized, p, fault)

\* write, lines 147-155, once len(p) has been added to nwrote: over the
\* limit the file is rotated and nwrote restarts at len(p).
restartKeepsCount(rotated, p) == rotated

restart(rotated, p) ==
    IF rotated.err THEN rotated ELSE [rotated EXCEPT !.w.nwrote = Len(p)]

sizeRotate(added, p, date, fault) ==
    IF overLimit(added.w)
    THEN CHOOSE r \in {restart(rotated, p) :
                           rotated \in {rotate(added, date, fault)}} : TRUE
    ELSE added

\* write, lines 145-173, after the day test: dayed is the state it left.
writeSized(dayed, p, date, fault) ==
    IF dayed.err THEN dayed
    ELSE CHOOSE r \in {putSized(sized, p, fault) :
              sized \in {sizeRotate(added, p, date, fault) :
                  added \in {[dayed EXCEPT
                                 !.w.nwrote = dayed.w.nwrote + Len(p),
                                 !.cum = dayed.w.nwrote + Len(p)]}}} : TRUE

\* write, lines 137-143: the day test, on the state opened that the open of
\* lines 130-135 left.
writeDayed(opened, date, fault) ==
    IF opened.err THEN opened
    ELSE IF dayChanged(opened.w, date)
    THEN [rotate(opened, date, fault) EXCEPT !.dayrot = TRUE]
    ELSE opened

\* Writer.write(p), applied on the date time.Now() gives.
write(s, p, date, fault) ==
    CHOOSE r \in {writeSized(dayed, p, date, fault) :
              dayed \in {writeDayed(opened, date, fault) :
                  opened \in {IF ~s.w.f THEN open(s, date, fault)
                              ELSE [s EXCEPT !.err = FALSE]}}} : TRUE

\* ------------------------------------------------------------ writer.go
\* The earlier Writer of writer.go: NewWriter, ringPush, reopen, rotate,
\* writeUnsafe (run by asyncWork) and writeFile (run by the callers of Write
\* in synchronous mode).  Its operators take and return a record s:
\*   s.w       the Writer's fields; f is a file handle, 0 for nil
\*   s.disk    the regular files of the log directory (name -> bytes)
\*   s.dirs    the names that are directories
\*   s.fds     the file handles opened so far: the name of the file each
\*             refers to (NoPath once that file is unlinked) and whether
\*             the handle is closed
\*   s.err     the error the operation returns (FALSE: nil)
\*   s.rotlog  one record per file renamed by rotate (history)
\*   s.opened  the date on which the active file was opened (history)
\* fault names the I/O operation the environment fails during the step:
\* "mkdir" (os.MkdirAll), "open" (os.OpenFile), "write" (File.Write).

\* The dates time.Now().Date() walks through for writer.go: the last day of
\* a month, the 1st of the next month and the 2nd.
DateSeqGo ==
    << <<2024, 1, 31>>, <<2024, 2, 1>>, <<2024, 2, 2>> >>

\* The handles after os.Rename(from, to): a handle follows its file to the
\* new name, a handle on a file that the rename replaced is left on an
\* unlinked file.
RenameHandles(fds, disk, dirs, from, to) ==
    IF from \notin DOMAIN disk \/ to \in dirs
    THEN fds
    ELSE [h \in 1..Len(fds) |->
             IF fds[h].path = to THEN [fds[h] EXCEPT !.path = NoPath]
             ELSE IF fds[h].path = from THEN [fds[h] EXCEPT !.path = to]
             ELSE fds[h]]

\* The handles after os.Remove(path).
RemoveHandles(fds, path) ==
    [h \in 1..Len(fds) |->
        IF fds[h].path = path THEN [fds[h] EXCEPT !.path = NoPath] ELSE fds[h]]

\* f.Write(p) through handle h: fails on a closed handle; the bytes go to
\* the file the handle refers to, whatever its name is now.
fileWrite(s, h, p, fault) ==
    IF s.fds[h].closed \/ fault = "write"
    THEN [s EXCEPT !.err = TRUE]
    ELSE IF s.fds[h].path = NoPath
    THEN [s EXCEPT !.err = FALSE]
    ELSE [s EXCEPT !.disk[s.fds[h].path] = s.disk[s.fds[h].path] \o p,
                   !.err = FALSE]

\* collectFiles(dir, prefix, maxfile) of the first variant: nothing when
\* maxfile is 0, else the last maxfile records by ascending id; cap is the
\* capacity of the slice returned.
collectFilesWalk(entries, maxfile) ==
    LET found == IF maxfile = 0 THEN {}
                 ELSE {fileinfo(e.name.id, e.name) : e \in Matching(entries)}
        head == IF Cardinality(found) - maxfile < 0 THEN 0
                ELSE Cardinality(found) - maxfile
    IN  [filist |-> SubSeq(SortById(found), head + 1, Cardinality(found)),
         cap |-> IF maxfile = 0 THEN 0
                 ELSE GrowCap(maxfile, Cardinality(found)) - head]

\* Writer.ringPush(id, name)
ringPush(w, id, name) ==
    LET full == w.maxfiles + w.head = w.tail /\ w.maxfiles # 0
    IN  [w |-> [w EXCEPT !.head = IF full THEN w.head + 1 ELSE w.head,
                         !.ring[(w.tail % Len(w.ring)) + 1] = fileinfo(id, name),
                         !.tail = w.tail + 1],
         pop |-> IF full THEN w.ring[(w.head % Len(w.ring)) + 1].path ELSE NoPath]

\* Writer.reopen(day), lines 71-86, once the old handle is closed.
reopenClosed(s, date, fault) ==
    IF fault = "mkdir"
    THEN [s EXCEPT !.err = TRUE]
    ELSE IF fault = "open"
    THEN [s EXCEPT !.w.f = 0, !.w.day = 0, !.w.wrote = 0, !.err = TRUE]
    ELSE [s EXCEPT
             !.disk = IF ActivePath \in DOMAIN s.disk THEN s.disk
                      ELSE [n \in DOMAIN s.disk \cup {ActivePath} |->
                               IF n = ActivePath THEN << >> ELSE s.disk[n]],
             !.fds = Append(s.fds, [path |-> ActivePath, closed |-> FALSE]),
             !.w.f = Len(s.fds) + 1,
             !.w.day = date[3],
             !.w.wrote = IF ActivePath \in DOMAIN s.disk
                         THEN Len(s.disk[ActivePath]) ELSE 0,
             !.opened = date,
             !.err = FALSE]

\* Writer.reopen(day)
reopen(s, date, fault) ==
    CHOOSE r \in {reopenClosed(closed, date, fault) :
                     closed \in {IF s.w.f # 0
                                 THEN [s EXCEPT !.fds[s.w.f].closed = TRUE]
                                 ELSE s}} : TRUE

\* rotate, lines 93-101: the date in the new name is the year and month
\* of the call, the month before on the 1st, with the day of w.day.
rotatedName(w, date) ==
    LET month == IF date[3] = 1 THEN date[2] - 1 ELSE date[2]
    IN  RotName(IF month = 0 THEN date[1] - 1 ELSE date[1],
                IF month = 0 THEN 12 ELSE month,
                w.day, w.id + 1)

\* rotate, lines 91-111, with a file open: rename and retention.
renameGo(s, date) ==
    LET newpath == rotatedName(s.w, date)
        pushed == IF s.w.maxfiles > 0
                  THEN ringPush([s.w EXCEPT !.id = s.w.id + 1], s.w.id + 1, newpath)
                  ELSE [w |-> [s.w EXCEPT !.id = s.w.id + 1], pop |-> NoPath]
        moved == [disk |-> Rename(s.disk, s.dirs, ActivePath, newpath),
                  fds |-> RenameHandles(s.fds, s.disk, s.dirs, ActivePath, newpath)]
    IN  [s EXCEPT
            !.w = pushed.w,
            !.disk = IF pushed.pop # NoPath
                     THEN Remove(moved.disk, pushed.pop) ELSE moved.disk,
            !.fds = IF pushed.pop # NoPath
                    THEN RemoveHandles(moved.fds, pushed.pop) ELSE moved.fds,
            !.rotlog = Append(s.rotlog,
                [id |-> s.w.id + 1,
                 path |-> newpath,
                 on |-> date,
                 opened |-> s.opened,
                 day |-> s.w.day,
                 data |-> IF ActivePath \in DOMAIN s.disk
                          THEN s.disk[ActivePath] ELSE << >>,
                 clash |-> newpath \in DOMAIN s.disk \/ newpath \in s.dirs,
                 removed |-> pushed.pop])]

\* Writer.rotate(year, month, day) of writer.go
rotateGo(s, date, fault) ==
    CHOOSE r \in {reopen(renamed, date, fault) :
                     renamed \in {IF s.w.f # 0 THEN renameGo(s, date) ELSE s}} : TRUE

\* writeUnsafe, lines 145-150: the write through w.f; its failure resets
\* the day and is not returned.
writeThrough(s, p, fault) ==
    IF s.w.f = 0 THEN s
    ELSE CHOOSE r \in {IF written.err
                       THEN [written EXCEPT !.w.day = 0, !.wfail = TRUE, !.err = FALSE]
                       ELSE written :
                          written \in {fileWrite(s, s.w.f, p, fault)}} : TRUE

\* writeUnsafe, lines 133-150: after the size rotation; wrote restarts at
\* len(p) whether or not the rotation succeeded.
writeSizedGo(sized, p, fault) ==
    IF sized.err THEN [sized EXCEPT !.w.wrote = Len(p)]
    ELSE writeThrough([sized EXCEPT !.w.wrote = Len(p)], p, fault)

\* writeUnsafe, lines 128-151, after the day test.
writeDayedGo(dayed, p, date, fault) ==
    IF dayed.err THEN dayed
    ELSE IF dayed.w.wrote + Len(p) > dayed.w.limit
    THEN CHOOSE r \in {writeSizedGo(sized, p, fault) :
             sized \in {rotateGo([dayed EXCEPT !.w.wrote = dayed.w.wrote + Len(p),
                                               !.cum = dayed.w.wrote + Len(p)],
                                 date, fault)}} : TRUE
    ELSE writeThrough([dayed EXCEPT !.w.wrote = dayed.w.wrote + Len(p),
                                    !.cum = dayed.w.wrote + Len(p)],
                      p, fault)

\* Writer.writeUnsafe(p), applied on the date time.Now() gives.
writeUnsafe(s, p, date, fault) ==
    CHOOSE r \in {writeDayedGo(dayed, p, date, fault) :
             dayed \in {IF date[3] # s.w.day
                        THEN [rotateGo(s, date, fault) EXCEPT !.dayrot = TRUE]
                        ELSE [s EXCEPT !.err = FALSE]}} : TRUE

\* --------------------------------------------------------------- state

VARIABLES
    w,        \* the Writer's fields that the worker owns
    disk,     \* regular files of the log directory: name -> bytes
    dirs,     \* names of the log directory that are directories
    wq,       \* the channel w.wq: buffers, and << >> (nil) for a sentinel
    clock,    \* index in DateSeq of the date time.Now() gives
    pcw,      \* where ioproc stands: "recv", "flush" or "signal"
    mu,       \* w.mu: 0 when free, else the caller that holds it
    cond,     \* w.cond's notify list: tickets handed out and notified
    pc,       \* where each Sync caller stands
    ticket,   \* each caller's ticket in the notify list
    ret,      \* what each caller's last Sync returned
    nfault,   \* I/O operations that have failed so far
    env,      \* what the run's environment does: writes, their lengths, days
    fds,      \* writer.go: the file handles opened so far
    calls,    \* writer.go: where each caller of Write stands, and its locals
    hist      \* history: what was enqueued, applied, rotated and synced

vars ==
    <<w, disk, dirs, wq, clock, pcw, mu, cond, pc, ticket, ret, nfault, env, fds,
      calls, hist>>

Callers == 1..NCallers

\* nil, the item Sync sends.
Sentinel == << >>

\* The n-th buffer accepted by Write, of length len.
Buf(n, len) == [k \in 1..len |-> <<n, k>>]

Now == DateSeq[clock]

Faults == {"none", "open", "flush", "write", "sync"}

\* The faults the environment may still inject.
FaultChoices == IF nfault < env.faults THEN Faults ELSE {"none"}

\* The engine's record for the current state.
Eng ==
    [w |-> w, disk |-> disk, dirs |-> dirs, err |-> FALSE,
     rotlog |-> hist.rotlog, dayrot |-> FALSE, cum |-> 0]

\* ----------------------------------------------------------------- New

\* The directory New finds: rotated files of earlier runs with the ids in
\* old, an active file (absent, empty or holding bytes of an earlier run) and,
\* with noise, a directory and a file that only look like rotated files.
OldName(i) == RotName(OldDate[1], OldDate[2], OldDate[3], i)

NoiseDir == RotName(OldDate[1], OldDate[2], OldDate[3], MaxOld + 2)

NoiseFile == Name(FALSE, OldDate, TRUE, MaxOld + 2)

OldBytes(i) == << <<0, i>> >>

InitDisk(old, active) ==
    [n \in {OldName(i) : i \in old}
           \cup (IF active = "absent" THEN {} ELSE {ActivePath}) |->
        IF n = ActivePath
        THEN (IF active = "old" THEN OldBytes(0) ELSE << >>)
        ELSE OldBytes(n.id)]

\* What Readdirnames and Lstat report of the directory.
Entries(d, ds, noise) ==
    {[name |-> n, isdir |-> FALSE, statok |-> TRUE] : n \in DOMAIN d}
    \cup {[name |-> n, isdir |-> TRUE, statok |-> TRUE] : n \in ds}
    \cup (IF noise THEN {[name |-> NoiseFile, isdir |-> FALSE, statok |-> TRUE]}
          ELSE {})

\* New(path, limit, maxfiles), followed by WriteMerging() when merge.
New(entries, limit, maxfiles, merge) ==
    LET c == collectFiles(entries, maxfiles)
    IN  [f |-> FALSE,
         nwrote |-> 0,
         limit |-> limit,
         writeMerge |-> merge,
         DailyRotate |-> TRUE,
         day |-> 0, month |-> 0, year |-> 0,
         nwm |-> 0,
         wmbuf |-> IF merge THEN [i \in 1..WmSize |-> <<0, 0>>] ELSE << >>,
         id |-> c.maxid,
         ring |-> [i \in 1..c.cap |->
                      IF i <= Len(c.filist) THEN c.filist[i] ELSE ZeroInfo],
         head |-> 0,
         tail |-> Len(c.filist),
         maxfiles |-> maxfiles]

NoHist ==
    [nw |-> 0,          \* buffers accepted by Write
     ns |-> 0,          \* Sync calls started
     sent |-> 0,        \* sentinels enqueued
     deq |-> << >>,     \* the buffers the worker dequeued, in order
     applied |-> << >>, \* one record per buffer handed to write
     rotlog |-> << >>,  \* one record per rotation
     synclog |-> << >>, \* one record per sentinel processed
     sigOf |-> << >>,   \* per notification: the sentinel it was raised for
     errs |-> FALSE,    \* an item failed since the last sentinel
     down |-> FALSE,    \* an item failed and no write has succeeded since
     old |-> {},        \* ids of the rotated files found at start-up
     pre |-> << >>,     \* the files found at start-up
     sid |-> [c \in Callers |-> 0],   \* the sentinel of each caller's Sync
     mark |-> [c \in Callers |-> 0]]  \* buffers enqueued before it

InitWith(old, active, noise, maxfiles, merge, e) ==
    /\ disk = InitDisk(old, active)
    /\ dirs = IF noise THEN {NoiseDir} ELSE {}
    /\ w = New(Entries(disk, dirs, noise), Limit, maxfiles, merge)
    /\ wq = << >>
    /\ clock = 1
    /\ pcw = "recv"
    /\ mu = 0
    /\ cond = [wait |-> 0, notify |-> 0]
    /\ pc = [c \in Callers |-> "idle"]
    /\ ticket = [c \in Callers |-> 0]
    /\ ret = [c \in Callers |-> "none"]
    /\ nfault = 0
    /\ env = e
    /\ fds = << >>
    /\ calls = << >>
    /\ hist = [NoHist EXCEPT !.old = old, !.pre = InitDisk(old, active)]

\* ------------------------------------------------------------- callers

\* Writer.Write(p): an empty p is dropped, any other is copied and sent.
Write(len) ==
    /\ hist.nw < env.maxw
    /\ len \in env.lens
    /\ IF len = 0
       THEN UNCHANGED <<wq, hist>>
       ELSE /\ Len(wq) < QueueCap
            /\ wq' = Append(wq, Buf(hist.nw + 1, len))
            /\ hist' = [hist EXCEPT !.nw = hist.nw + 1]
    /\ UNCHANGED <<w, disk, dirs, clock, pcw, mu, cond, pc, ticket, ret, nfault, env, fds, calls>>

\* Sync, line 234: w.mu.Lock()
SyncLockNoMutex(c) ==
    /\ pc[c] = "idle"
    /\ hist.ns < MaxSyncs
    /\ mu' = c
    /\ pc' = [pc EXCEPT ![c] = "locked"]
    /\ hist' = [hist EXCEPT !.ns = hist.ns + 1]
    /\ UNCHANGED <<w, disk, dirs, wq, clock, pcw, cond, ticket, ret, nfault, env, fds, calls>>

SyncLock(c) ==
    /\ pc[c] = "idle"
    /\ mu = 0
    /\ hist.ns < MaxSyncs
    /\ mu' = c
    /\ pc' = [pc EXCEPT ![c] = "locked"]
    /\ hist' = [hist EXCEPT !.ns = hist.ns + 1]
    /\ UNCHANGED <<w, disk, dirs, wq, clock, pcw, cond, ticket, ret, nfault, env, fds, calls>>

\* Sync, line 235: w.wq <- nil
SyncSend(c) ==
    /\ pc[c] = "locked"
    /\ Len(wq) < QueueCap
    /\ wq' = Append(wq, Sentinel)
    /\ pc' = [pc EXCEPT ![c] = "sent"]
    /\ hist' = [hist EXCEPT !.sent = hist.sent + 1,
                            !.sid[c] = hist.sent + 1,
                            !.mark[c] = hist.nw]
    /\ UNCHANGED <<w, disk, dirs, clock, pcw, mu, cond, ticket, ret, nfault, env, fds, calls>>

\* Sync, lines 236-237: cond.L is a nolock, so Lock is empty; Wait first
\* takes a ticket in the notify list ...
SyncWait(c) ==
    /\ pc[c] = "sent"
    /\ ticket' = [ticket EXCEPT ![c] = cond.wait]
    /\ cond' = [cond EXCEPT !.wait = cond.wait + 1]
    /\ pc' = [pc EXCEPT ![c] = "waiting"]
    /\ UNCHANGED <<w, disk, dirs, wq, clock, pcw, mu, ret, nfault, hist, env, fds, calls>>

\* ... and then sleeps until its ticket has been notified.
SyncWake(c) ==
    /\ pc[c] = "waiting"
    /\ ticket[c] < cond.notify
    /\ pc' = [pc EXCEPT ![c] = "woken"]
    /\ UNCHANGED <<w, disk, dirs, wq, clock, pcw, mu, cond, ticket, ret, nfault, hist, env, fds, calls>>

\* Sync, lines 238-240: unlock and return nil.
SyncReturn(c) ==
    /\ pc[c] = "woken"
    /\ mu' = 0
    /\ ret' = [ret EXCEPT ![c] = "nil"]
    /\ pc' = [pc EXCEPT ![c] = "idle"]
    /\ UNCHANGED <<w, disk, dirs, wq, clock, pcw, cond, ticket, nfault, hist, env, fds, calls>>

\* -------------------------------------------------------------- worker

\* ioproc, lines 199-210: a buffer is received and handed to write; an error
\* is printed and the file handle dropped.
IoprocWriteKeepsHandle(fault) ==
    /\ pcw = "recv"
    /\ wq # << >>
    /\ Head(wq) # Sentinel
    /\ \E r \in {write(Eng, Head(wq), Now, fault)} :
           /\ w' = r.w
           /\ disk' = r.disk
           /\ pcw' = IF r.err THEN "recv" ELSE "flush"
           /\ nfault' = IF r.err THEN nfault + 1 ELSE nfault
           /\ hist' = [hist EXCEPT
                 !.deq = Append(hist.deq, Head(wq)),
                 !.rotlog = r.rotlog,
                 !.errs = hist.errs \/ r.err,
                 !.down = r.err,
                 !.applied = Append(hist.applied,
                     [buf |-> Head(wq),
                      on |-> Now,
                      wasOpen |-> w.f,
                      afterFail |-> hist.down,
                      faultsBefore |-> nfault,
                      opened |-> <<w.year, w.month, w.day>>,
                      dayrot |-> r.dayrot,
                      cum |-> r.cum,
                      nwrote |-> r.w.nwrote,
                      rotsBefore |-> Len(hist.rotlog),
                      rotsAfter |-> Len(r.rotlog),
                      err |-> r.err])]
    /\ wq' = Tail(wq)
    /\ UNCHANGED <<dirs, clock, mu, cond, pc, ticket, ret, env, fds, calls>>

IoprocWrite(fault) ==
    /\ pcw = "recv"
    /\ wq # << >>
    /\ Head(wq) # Sentinel
    /\ \E r \in {write(Eng, Head(wq), Now, fault)} :
           /\ w' = IF r.err THEN [r.w EXCEPT !.f = FALSE] ELSE r.w
           /\ disk' = r.disk
           /\ pcw' = IF r.err THEN "recv" ELSE "flush"
           /\ nfault' = IF r.err THEN nfault + 1 ELSE nfault
           /\ hist' = [hist EXCEPT
                 !.deq = Append(hist.deq, Head(wq)),
                 !.rotlog = r.rotlog,
                 !.errs = hist.errs \/ r.err,
                 !.down = r.err,
                 !.applied = Append(hist.applied,
                     [buf |-> Head(wq),
                      on |-> Now,
                      wasOpen |-> w.f,
                      afterFail |-> hist.down,
                      faultsBefore |-> nfault,
                      opened |-> <<w.year, w.month, w.day>>,
                      dayrot |-> r.dayrot,
                      cum |-> r.cum,
                      nwrote |-> r.w.nwrote,
                      rotsBefore |-> Len(hist.rotlog),
                      rotsAfter |-> Len(r.rotlog),
                      err |-> r.err])]
    /\ wq' = Tail(wq)
    /\ UNCHANGED <<dirs, clock, mu, cond, pc, ticket, ret, env, fds, calls>>

\* ioproc, lines 200-204: after a write that succeeded the staging buffer is
\* flushed if the queue is found empty.
IoprocFlushNever(fault) ==
    /\ pcw = "flush"
    /\ pcw' = "recv"
    /\ \E r \in {Eng} :
           /\ w' = IF r.err THEN [r.w EXCEPT !.f = FALSE] ELSE r.w
           /\ disk' = r.disk
           /\ nfault' = IF r.err THEN nfault + 1 ELSE nfault
           /\ hist' = [hist EXCEPT !.errs = hist.errs \/ r.err,
                                   !.down = r.err]
    /\ UNCHANGED <<dirs, wq, clock, mu, cond, pc, ticket, ret, env, fds, calls>>

IoprocFlush(fault) ==
    /\ pcw = "flush"
    /\ pcw' = "recv"
    /\ \E r \in {IF Len(wq) = 0 THEN flushwm(Eng, fault) ELSE Eng} :
           /\ w' = IF r.err THEN [r.w EXCEPT !.f = FALSE] ELSE r.w
           /\ disk' = r.disk
           /\ nfault' = IF r.err THEN nfault + 1 ELSE nfault
           /\ hist' = [hist EXCEPT !.errs = hist.errs \/ r.err,
                                   !.down = r.err]
    /\ UNCHANGED <<dirs, wq, clock, mu, cond, pc, ticket, ret, env, fds, calls>>

\* ioproc, lines 177-194: a sentinel is received; with a file open the
\* staging buffer is flushed and the file synced.
IoprocSync(fault) ==
    /\ pcw = "recv"
    /\ wq # << >>
    /\ Head(wq) = Sentinel
    /\ wq' = Tail(wq)
    /\ pcw' = "signal"
    /\ LET flushed == IF w.f /\ w.nwm > 0 THEN flushwm(Eng, fault) ELSE Eng
           issued == w.f /\ ~flushed.err
           serr == flushed.err \/ (issued /\ fault = "sync")
       IN  /\ w' = IF serr THEN [flushed.w EXCEPT !.f = FALSE] ELSE flushed.w
           /\ disk' = flushed.disk
           /\ nfault' = IF serr THEN nfault + 1 ELSE nfault
           /\ hist' = [hist EXCEPT
                 !.errs = FALSE,
                 !.down = hist.down \/ serr,
                 !.synclog = Append(hist.synclog,
                     [open |-> w.f,
                      staged |-> flushed.w.nwm,
                      fsync |-> issued,
                      serr |-> serr,
                      err |-> hist.errs \/ serr,
                      deq |-> Len(hist.deq)])]
    /\ UNCHANGED <<dirs, clock, mu, cond, pc, ticket, ret, env, fds, calls>>

\* ioproc, line 195: w.cond.Signal() notifies the oldest ticket not yet
\* notified, and is lost when there is none.
IoprocSignal ==
    /\ pcw = "signal"
    /\ pcw' = "recv"
    /\ IF cond.wait # cond.notify
       THEN /\ cond' = [cond EXCEPT !.notify = cond.notify + 1]
            /\ hist' = [hist EXCEPT !.sigOf = Append(hist.sigOf, Len(hist.synclog))]
       ELSE UNCHANGED <<cond, hist>>
    /\ UNCHANGED <<w, disk, dirs, wq, clock, mu, pc, ticket, ret, nfault, env, fds, calls>>

\* The calendar date changes.
Tick ==
    /\ clock < env.days
    /\ clock' = clock + 1
    /\ UNCHANGED <<w, disk, dirs, wq, pcw, mu, cond, pc, ticket, ret, nfault, hist, env, fds, calls>>

\* ------------------------------------------------------- specifications

\* What a run's environment does: maxw writes with lengths in lens, over the
\* first days dates of DateSeq, with at most faults failed I/O operations.
Env(maxw, lens, days, faults) ==
    [maxw |-> maxw, lens |-> lens, days |-> days, faults |-> faults]

\* The pipeline with its Sync callers, started in an empty directory.
Init ==
    \E merge \in BOOLEAN :
        InitWith({}, "absent", FALSE, 0, merge,
                 Env(MaxWrites - 1, 0..MaxLen, 2, MaxFaults))

Next ==
    \/ \E len \in 0..MaxLen : Write(len)
    \/ \E c \in Callers : SyncLock(c)
    \/ \E c \in Callers : SyncSend(c)
    \/ \E c \in Callers : SyncWait(c)
    \/ \E c \in Callers : SyncWake(c)
    \/ \E c \in Callers : SyncReturn(c)
    \/ \E fault \in FaultChoices : IoprocWrite(fault)
    \/ \E fault \in FaultChoices : IoprocFlush(fault)
    \/ \E fault \in FaultChoices : IoprocSync(fault)
    \/ IoprocSignal
    \/ Tick

Spec == Init /\ [][Next]_vars

\* The rotation engine behind the queue, over several days.
RotInit ==
    \E active \in {"absent", "empty", "old"}, merge \in BOOLEAN :
        InitWith({}, active, FALSE, 0, merge,
                 Env(MaxWrites, 1..MaxLen, Len(DateSeq), MaxFaults))

RotNext ==
    \/ \E len \in 0..MaxLen : Write(len)
    \/ \E fault \in FaultChoices : IoprocWrite(fault)
    \/ \E fault \in FaultChoices : IoprocFlush(fault)
    \/ Tick

RotSpec == RotInit /\ [][RotNext]_vars

\* Retention and sequence ids: started in every directory an earlier run may
\* have left, with every retention count; every write is longer than the
\* limit, so that every write rotates.
KeepInit ==
    \E old \in SUBSET (1..MaxOld), noise \in BOOLEAN, maxfiles \in 0..MaxKeep :
        InitWith(old, "absent", noise, maxfiles, FALSE,
                 Env(MaxWrites + 1, {Limit + 1}, 2, MaxFaults))

KeepSpec == KeepInit /\ [][RotNext]_vars

\* ---------------------------------------------------------------- C1

\* What holds of caller c's Sync once its Wait has returned: the worker has
\* processed the call's own sentinel, after every buffer enqueued before it
\* was dequeued and handed to write; the staging buffer was empty when the
\* worker was done with the sentinel; and the notification that woke the
\* caller was raised for that sentinel, not for another call's.
OwnSentinelDone(c) ==
    LET k == hist.sid[c]
    IN  /\ k <= Len(hist.synclog)
        /\ hist.synclog[k].deq >= hist.mark[c]
        /\ \A n \in 1..hist.mark[c] :
              \E i \in 1..hist.synclog[k].deq : hist.deq[i][1][1] = n
        /\ hist.synclog[k].staged = 0
        /\ ticket[c] < Len(hist.sigOf)
        /\ hist.sigOf[ticket[c] + 1] = k

\* C1 as stated: when a Sync call returns the worker has applied every
\* buffer enqueued before the call's sentinel, flushed the staging buffer and
\* issued the file sync, and the call was not woken for another sentinel.
\* Violated: a Sync on a Writer whose file is not open (nothing written yet,
\* or the handle dropped after an error) returns without any file sync.
C1_SyncIssuesFileSync ==
    \A c \in Callers :
        pc[c] = "woken" =>
            /\ OwnSentinelDone(c)
            /\ hist.synclog[hist.sid[c]].fsync

\* C1 amended: as above, the file sync being issued whenever the sentinel
\* found the file open and the flush of the staging buffer did not fail.
C1_SyncAfterOwnSentinel ==
    \A c \in Callers :
        pc[c] = "woken" =>
            /\ OwnSentinelDone(c)
            /\ LET e == hist.synclog[hist.sid[c]]
               IN  (e.open /\ ~e.serr) => e.fsync

\* A second Sync, issued after a buffer, has returned from Wait; the file was
\* open and synced.
C1_Witness ==
    \E c \in Callers :
        /\ pc[c] = "woken"
        /\ hist.sid[c] = 2
        /\ hist.mark[c] >= 1
        /\ hist.synclog[2].fsync
        /\ w.writeMerge

\* ---------------------------------------------------------------- C2

\* The scheduling the Go runtime gives: a goroutine that can run does run.
\* The worker takes each of its steps when it can, and a caller that is
\* inside Sync goes on whenever it is not blocked.  Nothing obliges a caller
\* to start a Sync or a Write.
ioproc == 
    \/ \E fault \in FaultChoices : IoprocWrite(fault)
    \/ \E fault \in FaultChoices : IoprocFlush(fault)
    \/ \E fault \in FaultChoices : IoprocSync(fault)
    \/ IoprocSignal

InSync(c) == SyncSend(c) \/ SyncWait(c) \/ SyncWake(c) \/ SyncReturn(c)

Fairness == WF_vars(ioproc) /\ \A c \in Callers : WF_vars(InSync(c))

\* The pipeline with one buffer to write and no I/O failure, under that
\* scheduling.
FairInit ==
    \E merge \in BOOLEAN :
        InitWith({}, "absent", FALSE, 0, merge, Env(1, {1}, 2, 0))

FairSpec == FairInit /\ [][Next]_vars /\ Fairness

\* C2: every Sync call eventually returns: a caller that has enqueued its
\* sentinel is eventually back from Sync.
\* Violated: the worker may dequeue the sentinel and call Signal before the
\* caller has taken its ticket in Wait; that Signal finds no waiter and is
\* lost, the caller then waits for ever, holding w.mu.
C2_SyncEventuallyReturns ==
    \A c \in Callers : (pc[c] = "sent") ~> (pc[c] = "idle")

\* ---------------------------------------------------------------- C3

\* C3: Sync returns the I/O error the worker observed since the previous
\* sentinel (in a write, a flush or the sentinel's own flush and file sync),
\* and nil when there was none.
\* Violated: Sync returns nil whatever happened; the worker only prints the
\* error.
C3_SyncReturnsWorkerError ==
    \A c \in Callers :
        (pc[c] = "idle" /\ ret[c] # "none") =>
            ret[c] = IF hist.synclog[hist.sid[c]].err THEN "error" ELSE "nil"

\* ---------------------------------------------------------------- C4

RECURSIVE Flatten(_)
Flatten(ss) == IF ss = << >> THEN << >> ELSE Head(ss) \o Flatten(Tail(ss))

\* The rotated files on disk that this run created, in ascending id order.
RotatedNow ==
    SortById({fileinfo(n.id, n) :
                 n \in {m \in DOMAIN disk : m.pfx /\ m.num /\ m \notin DOMAIN hist.pre}})

\* The bytes of the active file followed by the bytes staged for it.
ActiveBytes ==
    (IF ActivePath \in DOMAIN disk THEN disk[ActivePath] ELSE << >>)
        \o SubSeq(w.wmbuf, 1, w.nwm)

\* The rotated files in ascending id, then the active file and the staging
\* buffer, as one byte stream.
Stream ==
    Flatten([i \in 1..Len(RotatedNow) |-> disk[RotatedNow[i].path]]) \o ActiveBytes

\* The bytes the active file held at start-up.
PreBytes == IF ActivePath \in DOMAIN hist.pre THEN hist.pre[ActivePath] ELSE << >>

\* p lies contiguously and entirely in the bytes x.
Within(p, x) ==
    \E o \in 0..(Len(x) - Len(p)) : SubSeq(x, o + 1, o + Len(p)) = p

\* The files of this run (the active file with its staged bytes counted as
\* one) that hold buffer p entirely.
Holders(p) ==
    {i \in 1..Len(RotatedNow) : Within(p, disk[RotatedNow[i].path])}
        \cup (IF Within(p, ActiveBytes) THEN {0} ELSE {})

NoFailure == nfault = 0

NoEviction == \A i \in 1..Len(hist.rotlog) : hist.rotlog[i].removed = NoPath

\* C4: with no I/O failure and no eviction, the rotated files in ascending
\* id, then the active file, then the staging buffer hold exactly the
\* buffers the worker dequeued, in the order it dequeued them, and each
\* buffer lies entirely in exactly one file.
C4_StreamIsDequeuedFifo ==
    (NoFailure /\ NoEviction) =>
        /\ Stream = PreBytes \o Flatten(hist.deq)
        /\ \A i \in 1..Len(hist.deq) : Cardinality(Holders(hist.deq[i])) = 1

\* Two buffers were dequeued, a rotation separates them, and the second is
\* still staged.
C4_Witness ==
    /\ NoFailure
    /\ Len(hist.deq) = 2
    /\ Len(hist.rotlog) >= 1
    /\ hist.rotlog[Len(hist.rotlog)].data # << >>
    /\ w.nwm > 0

\* ---------------------------------------------------------------- C5

\* The rotations write performed for the i-th buffer because of the size
\* test (a rotation for the day comes first and is not counted).
SizeRotations(i) ==
    LET a == hist.applied[i]
    IN  a.rotsAfter - a.rotsBefore - (IF a.dayrot THEN 1 ELSE 0)

\* The i-th buffer was written without error and made nwrote exceed limit.
Overflows(i) == ~hist.applied[i].err /\ hist.applied[i].cum > w.limit

\* No byte of buffer p is among the bytes x.
Absent(p, x) == \A j \in 1..Len(x) : \A k \in 1..Len(p) : x[j] # p[k]

C6_RotatesOnEveryDateChange ==
    \A i \in 1..Len(hist.applied) :
        LET a == hist.applied[i]
        IN  (~a.err /\ a.wasOpen /\ a.opened # a.on) =>
                /\ a.rotsAfter > a.rotsBefore
                /\ hist.rotlog[a.rotsBefore + 1].path.date = a.opened

\* ---------------------------------------------------------------- C7

\* The names of the rotated files on disk.
RotatedOnDisk == {n \in DOMAIN disk : n.pfx /\ n.num}

\* The ids of all rotated files that were ever on disk during the run.
EverIds == hist.old \cup {hist.rotlog[i].id : i \in 1..Len(hist.rotlog)}

\* The k largest elements of the set of numbers S.
Largest(S, k) == {x \in S : Cardinality({y \in S : y > x}) < k}

\* C7: with maxfiles = k > 0, after a rotation the rotated files on disk are
\* the k most recent ones (all of them while there are fewer than k), the
\* files that earlier runs left being counted.
\* Violated: collectFiles drops the files beyond the last k without
\* deleting them, and the ring never learns of them: they stay on disk.
C7_KeepsTheLastK ==
    (w.maxfiles > 0 /\ NoFailure /\ Len(hist.rotlog) > 0) =>
        /\ Cardinality(RotatedOnDisk) <= w.maxfiles
        /\ {n.id : n \in RotatedOnDisk} = Largest(EverIds, w.maxfiles)

\* ---------------------------------------------------------------- C8

\* C8: each rotation uses an id greater than the id of every earlier rotation
\* of the run and than the id of every rotated file found at start-up,
\* whatever maxfiles is; the name it renames to is not taken.
C8_IdsStrictlyIncrease ==
    \A i \in 1..Len(hist.rotlog) :
        LET e == hist.rotlog[i]
        IN  /\ \A j \in 1..(i - 1) : hist.rotlog[j].id < e.id
            /\ \A o \in hist.old : o < e.id
            /\ ~e.clash

\* Two rotations in a directory that held more rotated files than the scan
\* retained.
C8_Witness ==
    /\ Len(hist.rotlog) >= 2
    /\ Cardinality(hist.old) > w.maxfiles
    /\ hist.rotlog[1].id = Max(hist.old) + 1

\* ---------------------------------------------------------------- C9

RECURSIVE SumLen(_)
SumLen(ss) == IF ss = << >> THEN 0 ELSE Len(Head(ss)) + SumLen(Tail(ss))

\* The active file was absent or empty at start-up.
FreshStart == PreBytes = << >>

\* All the buffers dequeued so far were applied on one date.
SingleDay ==
    \A i, j \in 1..Len(hist.applied) : hist.applied[i].on = hist.applied[j].on

\* C9: from an absent or empty active file, writes applied within one day
\* whose lengths sum to less than the limit cause no rotation: the sequence
\* counter keeps the value New gave it, no rotated file appears, and (with
\* no I/O failure) the active file and its staging buffer hold all the
\* bytes, the file alone once the worker has found the queue empty.
C9_NoRotationBelowLimit ==
    (FreshStart /\ SingleDay /\ SumLen(hist.deq) < w.limit) =>
        /\ hist.rotlog = << >>
        /\ w.id = IF hist.old = {} THEN 0 ELSE Max(hist.old)
        /\ RotatedOnDisk = {n \in DOMAIN hist.pre : n.pfx /\ n.num}
        /\ NoFailure => ActiveBytes = Flatten(hist.deq)
        /\ (NoFailure /\ pcw = "recv" /\ wq = << >> /\ hist.deq # << >>) =>
                disk[ActivePath] = Flatten(hist.deq)

\* Two buffers that together stay below the limit were merged and flushed.
C9_Witness ==
    /\ FreshStart /\ SingleDay /\ NoFailure
    /\ Len(hist.deq) = 2
    /\ SumLen(hist.deq) < w.limit
    /\ w.writeMerge
    /\ pcw = "recv"
    /\ disk[ActivePath] = Flatten(hist.deq)

\* --------------------------------------------------------------- C10

\* C10: from an absent or empty active file, every file renamed by a
\* rotation holds at least one complete buffer.
\* Violated: a first buffer longer than the limit rotates the file that was
\* just opened, before anything was written to it.
C10_NoEmptyFileRotated ==
    FreshStart =>
        \A i \in 1..Len(hist.rotlog) :
            \E j \in 1..Len(hist.deq) : Within(hist.deq[j], hist.rotlog[i].data)

\* --------------------------------------------------------------- C11

\* Buffer i + 1 was applied without error on the date of buffer i, through
\* the file handle that buffer i left open.
FollowsSameDay(i) ==
    /\ i + 1 <= Len(hist.applied)
    /\ ~hist.applied[i + 1].err
    /\ hist.applied[i + 1].wasOpen
    /\ hist.applied[i + 1].on = hist.applied[i].on

\* C11 as stated: after a buffer longer than the limit has rotated the file,
\* nwrote is the length of that buffer and the buffer that follows it on the
\* same day causes no rotation.
\* Violated: nwrote is then above the limit already, so the next buffer
\* rotates again.
C11_NoRotationAfterOversizeWrite ==
    \A i \in 1..Len(hist.applied) :
        LET a == hist.applied[i]
        IN  (~a.err /\ Len(a.buf) > w.limit /\ SizeRotations(i) = 1) =>
                /\ a.nwrote = Len(a.buf)
                /\ FollowsSameDay(i) =>
                       hist.applied[i + 1].rotsAfter = hist.applied[i + 1].rotsBefore

\* C11 amended: after a buffer has rotated the file for size, nwrote is the
\* length of that buffer, and the buffer that follows it on the same day
\* rotates again exactly when the two lengths together exceed the limit; it
\* always does after a buffer longer than the limit.
C11_WatermarkIsLengthOfRotatingWrite ==
    \A i \in 1..Len(hist.applied) :
        LET a == hist.applied[i]
        IN  (~a.err /\ SizeRotations(i) = 1) =>
                /\ a.nwrote = Len(a.buf)
                /\ FollowsSameDay(i) =>
                       /\ hist.applied[i + 1].cum = Len(a.buf) + Len(hist.applied[i + 1].buf)
                       /\ SizeRotations(i + 1) =
                              IF Len(a.buf) + Len(hist.applied[i + 1].buf) > w.limit
                              THEN 1 ELSE 0
                       /\ Len(a.buf) > w.limit => SizeRotations(i + 1) = 1

\* A buffer longer than the limit rotated the file, and so did the buffer
\* that followed it on the same day; a third buffer, after a rotating buffer
\* within the limit, did not.
C11_Witness ==
    /\ Len(hist.applied) = 3
    /\ Len(hist.applied[1].buf) > Limit
    /\ SizeRotations(1) = 1
    /\ FollowsSameDay(1) /\ FollowsSameDay(2)
    /\ SizeRotations(2) = 1
    /\ SizeRotations(3) = 0

\* --------------------------------------------------------------- C12

\* The pipeline with I/O failures and buffers short enough to be staged or
\* too long for the staging buffer; the worker takes its steps when it can.
FaultInit ==
    \E merge \in BOOLEAN :
        InitWith({}, "absent", FALSE, 0, merge,
                 Env(MaxWrites - 1, {1, MaxLen}, 2, MaxFaults))

FaultSpec == FaultInit /\ [][Next]_vars /\ WF_vars(ioproc)

\* The last buffer handed to write.
LastApplied == hist.applied[Len(hist.applied)]

\* After an item failed the file handle is absent, and the buffer dequeued
\* next finds it so and opens the file anew; a buffer written without error
\* is in the active file or staged for it, and in the file itself once the
\* worker has found the queue empty, unless a later item failed.
SelfHealing ==
    /\ hist.down => ~w.f
    /\ \A i \in 1..Len(hist.applied) :
          hist.applied[i].afterFail => ~hist.applied[i].wasOpen
    /\ (hist.applied # << >> /\ ~hist.down) =>
          /\ ~LastApplied.err
          /\ w.f
          /\ Within(LastApplied.buf, ActiveBytes)
          /\ (pcw = "recv" /\ wq = << >>) =>
                Within(LastApplied.buf, disk[ActivePath])

\* C12: an I/O failure does not stop the pipeline: the handle is dropped, the
\* next buffer opens the file anew and reaches it, and every buffer accepted
\* by Write is eventually dequeued and handed to write.
C12_FailureDoesNotStopPipeline ==
    /\ []SelfHealing
    /\ \A n \in 1..MaxWrites : (hist.nw >= n) ~> (Len(hist.applied) >= n)

\* A first buffer failed; the second found the handle absent, opened the file
\* and is in it.
C12_Witness ==
    /\ Len(hist.applied) = 2
    /\ hist.applied[1].err
    /\ hist.applied[2].afterFail
    /\ ~hist.applied[2].err
    /\ pcw = "recv"
    /\ wq = << >>
    /\ disk[ActivePath] = hist.applied[2].buf

\* ---------------------------------------------------- writer.go: state

NowGo == DateSeqGo[clock]

FaultsGo == {"none", "mkdir", "open", "write"}

FaultChoicesGo == IF nfault < env.faults THEN FaultsGo ELSE {"none"}

\* The engine's record for the current state.
EngGo ==
    [w |-> w, disk |-> disk, dirs |-> dirs, fds |-> fds, err |-> FALSE,
     rotlog |-> hist.rotlog, opened |-> hist.opened,
     dayrot |-> FALSE, wfail |-> FALSE, cum |-> 0]

\* A rotated file that an earlier run left, renamed on the first date.
OldNameGo(i) == RotName(DateSeqGo[1][1], DateSeqGo[1][2], DateSeqGo[1][3], i)

InitDiskGo(old) == [n \in {OldNameGo(i) : i \in old} |-> OldBytes(n.id)]

\* NewWriter(path, limit, maxfiles); async tells whether Async() follows,
\* which starts asyncWork and locks wmu and mu for good.
NewWriter(entries, limit, maxfiles, async) ==
    LET filist == collectFilesWalk(entries, maxfiles).filist
        cap == collectFilesWalk(entries, maxfiles).cap
    IN  [f |-> 0,
         wrote |-> 0,
         day |-> 0,
         limit |-> limit,
         id |-> IF Len(filist) > 0 THEN filist[Len(filist)].id ELSE 0,
         ring |-> [i \in 1..cap |-> IF i <= Len(filist) THEN filist[i] ELSE ZeroInfo],
         head |-> 0,
         tail |-> Len(filist),
         maxfiles |-> maxfiles,
         async |-> async,
         mu |-> IF async THEN NCallers + 1 ELSE 0,
         wmu |-> IF async THEN NCallers + 1 ELSE 0]

NoHistGo ==
    [nw |-> 0,          \* buffers accepted by Write
     deq |-> << >>,     \* the buffers handed to writeUnsafe, in order
     applied |-> << >>, \* one record per buffer that went through a write
     rotlog |-> << >>,  \* one record per file renamed by rotate
     opened |-> <<0, 0, 0>>,  \* the date on which the active file was opened
     resets |-> 0,      \* times a failed write has reset w.day
     old |-> {},        \* ids of the rotated files found at start-up
     pre |-> << >>]     \* the files found at start-up

\* A caller that is not inside Write.
Idle == [pc |-> "idle", f |-> 0, date |-> <<0, 0, 0>>, buf |-> << >>]

InitGo(old, maxfiles, async, e) ==
    /\ disk = InitDiskGo(old)
    /\ dirs = {}
    /\ fds = << >>
    /\ w = NewWriter(Entries(disk, dirs, FALSE), Limit, maxfiles, async)
    /\ calls = [g \in Callers |-> Idle]
    /\ wq = << >>
    /\ clock = 1
    /\ pcw = "recv"
    /\ mu = 0
    /\ cond = [wait |-> 0, notify |-> 0]
    /\ pc = [c \in Callers |-> "idle"]
    /\ ticket = [c \in Callers |-> 0]
    /\ ret = [c \in Callers |-> "none"]
    /\ nfault = 0
    /\ env = e
    /\ hist = [NoHistGo EXCEPT !.old = old, !.pre = InitDiskGo(old)]

\* ----------------------------------------------- writer.go: async mode

\* Writer.Write(p) after Async(): writeAsync copies p and sends it to logq.
writeAsync(len) ==
    /\ w.async
    /\ hist.nw < env.maxw
    /\ len \in env.lens
    /\ Len(wq) < QueueCap
    /\ wq' = Append(wq, Buf(hist.nw + 1, len))
    /\ hist' = [hist EXCEPT !.nw = hist.nw + 1]
    /\ UNCHANGED <<w, disk, dirs, clock, pcw, mu, cond, pc, ticket, ret, nfault, env,
                   fds, calls>>

\* Writer.asyncWork: a buffer is received and handed to writeUnsafe.
asyncWork(fault) ==
    /\ w.async
    /\ wq # << >>
    /\ wq' = Tail(wq)
    /\ \E r \in {writeUnsafe(EngGo, Head(wq), NowGo, fault)} :
           /\ w' = r.w
           /\ disk' = r.disk
           /\ fds' = r.fds
           /\ nfault' = IF r.err \/ r.wfail THEN nfault + 1 ELSE nfault
           /\ hist' = [hist EXCEPT
                 !.deq = Append(hist.deq, Head(wq)),
                 !.rotlog = r.rotlog,
                 !.opened = r.opened,
                 !.resets = IF r.wfail THEN hist.resets + 1 ELSE hist.resets,
                 !.applied = Append(hist.applied,
                     [buf |-> Head(wq),
                      on |-> NowGo,
                      dayrot |-> r.dayrot,
                      cum |-> r.cum,
                      rotsBefore |-> Len(hist.rotlog),
                      rotsAfter |-> Len(r.rotlog),
                      err |-> r.err,
                      wfail |-> r.wfail])]
    /\ UNCHANGED <<dirs, clock, pcw, mu, cond, pc, ticket, ret, env, calls>>

\* writer.go in async mode, started in every directory an earlier run may
\* have left on the same day, with every retention count.
AsyncInit ==
    \E old \in SUBSET (1..MaxOld), maxfiles \in 0..MaxKeep :
        InitGo(old, maxfiles, TRUE,
               Env(MaxWrites, {1, MaxLen}, Len(DateSeqGo), MaxFaults))

AsyncNext ==
    \/ \E len \in 0..MaxLen : writeAsync(len)
    \/ \E fault \in FaultChoicesGo : asyncWork(fault)
    \/ Tick

AsyncSpec == AsyncInit /\ [][AsyncNext]_vars

\* --------------------------------------------------------------- C13

\* C13: in writer.go every file renamed by a rotation, for the day or for
\* the size, gets the year, month and day on which it was opened in its
\* name, even in a run without I/O failure.
\* Violated: rotate takes the year and month of the date of the call and
\* steps back one month whenever that date is a 1st: a file opened on
\* 2024-02-01 and rotated for size the same day is named 2024-01-01, and a
\* file opened on 2024-01-31 and rotated on 2024-02-02 is named 2024-02-31.
C13_RotatedNameIsOpeningDate ==
    NoFailure =>
        \A i \in 1..Len(hist.rotlog) :
            hist.rotlog[i].path.date = hist.rotlog[i].opened

\* --------------------------------------------------------------- C14

\* C14: a Writer built by NewWriter starts its sequence counter at the
\* largest id among the rotated files in the directory, whatever maxfiles
\* is, so that no rotation uses the id of a file of an earlier run or
\* renames over one.
\* Violated: with maxfiles = 0 collectFiles returns nothing and the counter
\* starts at 0; the first rotation takes id 1 again and, on the day of the
\* earlier run, renames the active file over that run's file.
C14_IdContinuesAfterRestart ==
    \A i \in 1..Len(hist.rotlog) :
        /\ hist.rotlog[i].id > Max(hist.old \cup {0})
        /\ ~hist.rotlog[i].clash

\* ------------------------------------------------ writer.go: sync mode
\* Writer.Write(p) without Async(): each caller runs writeFile itself.  A
\* step of the model is one access of the shared Writer outside the locks,
\* or one critical section.

\* writeFile, lines 164-166: the caller reads w.f without a lock and takes
\* the date.
writeFileStart(g, len) ==
    /\ ~w.async
    /\ calls[g].pc = "idle"
    /\ hist.nw < env.maxw
    /\ len \in env.lens
    /\ calls' = [calls EXCEPT ![g] = [pc |-> "day", f |-> w.f, date |-> NowGo,
                                      buf |-> Buf(hist.nw + 1, len)]]
    /\ hist' = [hist EXCEPT !.nw = hist.nw + 1]
    /\ UNCHANGED <<w, disk, dirs, wq, clock, pcw, mu, cond, pc, ticket, ret, nfault,
                   env, fds>>

\* writeFile, line 167: the day test, on w.day read without a lock.
writeFileDayTest(g) ==
    /\ calls[g].pc = "day"
    /\ calls' = [calls EXCEPT ![g].pc =
                    IF calls[g].date[3] # w.day THEN "daylock" ELSE "wmu"]
    /\ UNCHANGED <<w, disk, dirs, wq, clock, pcw, mu, cond, pc, ticket, ret, nfault,
                   env, fds, hist>>

\* writeFile, lines 169-178: under w.mu the day is tested again, the file
\* rotated, and the caller takes the new w.f.
writeFileDayRotate(g, fault) ==
    /\ calls[g].pc = "daylock"
    /\ w.mu = 0
    /\ \E r \in {IF calls[g].date[3] # w.day
                 THEN rotateGo(EngGo, calls[g].date, fault)
                 ELSE EngGo} :
           /\ w' = r.w
           /\ disk' = r.disk
           /\ fds' = r.fds
           /\ nfault' = IF r.err THEN nfault + 1 ELSE nfault
           /\ calls' = [calls EXCEPT ![g] =
                           IF r.err THEN Idle
                           ELSE [calls[g] EXCEPT !.pc = "wmu", !.f = r.w.f]]
           /\ hist' = [hist EXCEPT !.rotlog = r.rotlog, !.opened = r.opened]
    /\ UNCHANGED <<dirs, wq, clock, pcw, mu, cond, pc, ticket, ret, env>>

\* writeFile, lines 180-182 and 192: under w.wmu the length is added to
\* w.wrote; within the limit the lock is released at once.
writeFileCount(g) ==
    /\ calls[g].pc = "wmu"
    /\ w.wmu = 0
    /\ w' = [w EXCEPT !.wrote = w.wrote + Len(calls[g].buf),
                      !.wmu = IF w.wrote + Len(calls[g].buf) > w.limit
                              THEN g ELSE 0]
    /\ calls' = [calls EXCEPT ![g].pc =
                    IF w.wrote + Len(calls[g].buf) > w.limit
                    THEN "sizelock" ELSE "write"]
    /\ UNCHANGED <<disk, dirs, wq, clock, pcw, mu, cond, pc, ticket, ret, nfault,
                   env, fds, hist>>

\* writeFile, lines 184-195: under w.wmu and w.mu the size is tested again,
\* the file rotated, the caller takes the new w.f and w.wrote restarts.
writeFileSizeRotate(g, fault) ==
    /\ calls[g].pc = "sizelock"
    /\ w.mu = 0
    /\ \E r \in {IF w.wrote > w.limit
                 THEN rotateGo(EngGo, calls[g].date, fault)
                 ELSE EngGo} :
           /\ w' = [r.w EXCEPT !.wrote = Len(calls[g].buf), !.wmu = 0]
           /\ disk' = r.disk
           /\ fds' = r.fds
           /\ nfault' = IF r.err THEN nfault + 1 ELSE nfault
           /\ calls' = [calls EXCEPT ![g] =
                           IF r.err THEN Idle
                           ELSE [calls[g] EXCEPT !.pc = "write", !.f = r.w.f]]
           /\ hist' = [hist EXCEPT !.rotlog = r.rotlog, !.opened = r.opened]
    /\ UNCHANGED <<dirs, wq, clock, pcw, mu, cond, pc, ticket, ret, env>>

\* writeFile, lines 197-199: the write through the handle the caller
\* holds, outside any lock; with no handle nothing is written.
writeFileWrite(g, fault) ==
    /\ calls[g].pc = "write"
    /\ \E r \in {IF calls[g].f = 0 THEN EngGo
                 ELSE fileWrite(EngGo, calls[g].f, calls[g].buf, fault)} :
           /\ disk' = r.disk
           /\ nfault' = IF r.err /\ fault = "write" THEN nfault + 1 ELSE nfault
           /\ calls' = [calls EXCEPT ![g] =
                           IF r.err THEN [calls[g] EXCEPT !.pc = "reset"] ELSE Idle]
           /\ hist' = [hist EXCEPT !.applied = Append(hist.applied,
                          [buf |-> calls[g].buf,
                           h |-> calls[g].f,
                           active |-> w.f,
                           closed |-> calls[g].f # 0 /\ fds[calls[g].f].closed,
                           err |-> r.err])]
    /\ UNCHANGED <<w, dirs, wq, clock, pcw, mu, cond, pc, ticket, ret, env, fds>>

\* writeFile, lines 199-203: after a failed write w.day is reset under w.mu.
writeFileResetDay(g) ==
    /\ calls[g].pc = "reset"
    /\ w.mu = 0
    /\ w' = [w EXCEPT !.day = 0]
    /\ calls' = [calls EXCEPT ![g] = Idle]
    /\ hist' = [hist EXCEPT !.resets = hist.resets + 1]
    /\ UNCHANGED <<disk, dirs, wq, clock, pcw, mu, cond, pc, ticket, ret, nfault,
                   env, fds>>

\* writer.go in synchronous mode with NCallers concurrent callers of Write,
\* started in an empty directory.
SyncModeInit ==
    \E maxfiles \in {0, MaxKeep} :
        InitGo({}, maxfiles, FALSE,
               Env(MaxWrites, {1, MaxLen}, 2, MaxFaults))

SyncModeNext ==
    \/ \E g \in Callers, len \in 0..MaxLen : writeFileStart(g, len)
    \/ \E g \in Callers : writeFileDayTest(g)
    \/ \E g \in Callers, fault \in FaultChoicesGo : writeFileDayRotate(g, fault)
    \/ \E g \in Callers : writeFileCount(g)
    \/ \E g \in Callers, fault \in FaultChoicesGo : writeFileSizeRotate(g, fault)
    \/ \E g \in Callers, fault \in FaultChoicesGo : writeFileWrite(g, fault)
    \/ \E g \in Callers : writeFileResetDay(g)
    \/ Tick

SyncModeSpec == SyncModeInit /\ [][SyncModeNext]_vars

\* --------------------------------------------------------------- C15

\* C15: in synchronous mode, whatever the interleaving of concurrent Write
\* calls and with no I/O failure injected, each call writes its bytes
\* through the handle that is w.f at the moment of the write, never through
\* a closed handle, no write fails and none resets the day.
\* Violated: writeFile reads w.f before taking any lock and writes after
\* releasing them; a rotation by another caller in between closes that
\* handle, the write fails, is lost, and resets w.day.  A caller that read
\* a nil w.f while another caller was opening the file writes nothing.
C15_WritesThroughActiveHandle ==
    NoFailure =>
        /\ hist.resets = 0
        /\ \A i \in 1..Len(hist.applied) :
              /\ hist.applied[i].h = hist.applied[i].active
              /\ ~hist.applied[i].closed
              /\ ~hist.applied[i].err

\* --------------------------------------------------------------- C16

\* Writer.WriteMerging(), called while the worker runs: the caller gives the
\* Writer a new staging buffer, sets the staged count to 0 and turns
\* merging on, without any synchronisation with ioproc.
WriteMerging ==
    /\ w' = [w EXCEPT !.wmbuf = [i \in 1..WmSize |-> <<0, 0>>],
                      !.nwm = 0,
                      !.writeMerge = TRUE]
    /\ UNCHANGED <<disk, dirs, wq, clock, pcw, mu, cond, pc, ticket, ret, nfault, env,
                   fds, calls, hist>>

\* The pipeline with callers of Write, Sync and WriteMerging.
MergeInit ==
    \E merge \in BOOLEAN :
        InitWith({}, "absent", FALSE, 0, merge,
                 Env(MaxWrites - 1, {1, MaxLen}, 2, MaxFaults))

MergeNext == Next \/ WriteMerging

MergeSpec == MergeInit /\ [][MergeNext]_vars

\* C16: whatever the callers do while the worker runs (Write, Sync,
\* WriteMerging), with no I/O failure the files and the staging buffer hold
\* exactly the buffers the worker dequeued, in order: no caller operation
\* loses or corrupts bytes that are staged or being written.
\* Violated: WriteMerging assigns w.wmbuf, w.nwm and w.writeMerge, which
\* ioproc uses; called while bytes are staged, it drops them.
C16_CallersLeaveWorkerStateAlone ==
    (NoFailure /\ NoEviction) => Stream = PreBytes \o Flatten(hist.deq)

\* --------------------------------------------------------------- C17

\* What a Writer without merging, built in the directory the run started in,
\* has made of the first k buffers the worker dequeued, each applied on the
\* date it was applied on in the run.
RECURSIVE Unmerged(_)
Unmerged(k) ==
    IF k = 0
    THEN [w |-> New(Entries(hist.pre, {}, FALSE), w.limit, w.maxfiles, FALSE),
          disk |-> hist.pre, dirs |-> {}, err |-> FALSE, rotlog |-> << >>,
          dayrot |-> FALSE, cum |-> 0]
    ELSE CHOOSE r \in {write(prev, hist.applied[k].buf, hist.applied[k].on, "none") :
                          prev \in {Unmerged(k - 1)}} : TRUE

\* The state is that of the Writer without merging, but for the bytes
\* still staged, which that Writer has in the active file.
SameAsUnmerged(ref) ==
    /\ hist.rotlog = ref.rotlog
    /\ w.id = ref.w.id
    /\ w.nwrote = ref.w.nwrote
    /\ <<w.year, w.month, w.day>> = <<ref.w.year, ref.w.month, ref.w.day>>
    /\ DOMAIN disk = DOMAIN ref.disk
    /\ \A n \in DOMAIN disk \ {ActivePath} : disk[n] = ref.disk[n]
    /\ ActiveBytes = ref.disk[ActivePath]
    /\ w.nwm = 0 => disk = ref.disk

\* C17: with no I/O failure, a Writer with merging takes the rotation
\* decisions of a Writer without merging that is given the same buffers on
\* the same dates: same rotations with the same ids, names and contents
\* (the staged bytes are flushed to the file before it is renamed), same
\* byte count, and the same files once the staging buffer is flushed.
C17_MergingIsTransparent ==
    (w.writeMerge /\ NoFailure /\ hist.applied # << >>) =>
        SameAsUnmerged(Unmerged(Len(hist.applied)))

\* Two buffers were staged together and flushed by the size rotation that
\* the third caused, which is staged in the new file.
C17_Witness ==
    /\ w.writeMerge /\ NoFailure
    /\ Len(hist.applied) = 3
    /\ Len(hist.rotlog) = 1
    /\ hist.rotlog[1].data = hist.applied[1].buf \o hist.applied[2].buf
    /\ w.nwm = Len(hist.applied[3].buf)

\* --------------------------------------------------------------- C18

\* The n-th buffer accepted has been handed to write and is entirely in one
\* of the files, or an error was reported when it was applied or later.
Settled(n) ==
    /\ n <= Len(hist.applied)
    /\ \/ \E f \in DOMAIN disk : Within(hist.applied[n].buf, disk[f])
       \/ nfault > hist.applied[n].faultsBefore

\* C18: nothing stays staged while the worker waits on an empty queue, the
\* staged count never exceeds the size of the staging buffer, and every
\* buffer accepted by Write ends up in a file or in a reported failure
\* without any further Write or Sync.
C18_NothingStagedWhileIdle ==
    /\ []((pcw = "recv" /\ wq = << >>) => w.nwm = 0)
    /\ [](w.nwm <= Len(w.wmbuf))
    /\ \A n \in 1..MaxWrites : (hist.nw >= n) ~> Settled(n)

\* With merging, two buffers short enough to be staged are in the active
\* file and the worker waits on the empty queue.
C18_Witness ==
    /\ w.writeMerge /\ NoFailure
    /\ pcw = "recv" /\ wq = << >>
    /\ Len(hist.applied) = 2
    /\ \A i \in 1..2 : Len(hist.applied[i].buf) <= WmSize
    /\ hist.rotlog = << >>
    /\ disk[ActivePath] = hist.applied[1].buf \o hist.applied[2].buf
    /\ w.nwm = 0

\* --------------------------------------------------------------- C19

\* The live records of the ring, oldest first.
Live ==
    [i \in 1..(w.tail - w.head) |-> w.ring[((w.head + i - 1) % Len(w.ring)) + 1]]

\* The records the ring has been given, in order: those the start-up scan
\* retained, then one per rotation.
Given ==
    SortById({fileinfo(i, OldName(i)) : i \in Largest(hist.old, w.maxfiles)})
        \o [i \in 1..Len(hist.rotlog) |->
               fileinfo(hist.rotlog[i].id, hist.rotlog[i].path)]

\* How many of them the scan retained.
Seeded == Cardinality(Largest(hist.old, w.maxfiles))

\* C19: with maxfiles = k > 0 the ring holds at most k live records, the
\* most recent ones it was given, in strictly increasing id order; a push
\* returns no path while fewer than k records are live and otherwise the
\* path of the oldest live record, which is the one given k pushes before;
\* also when the scan at start-up found more than k files.
C19_RingKeepsLastK ==
    w.maxfiles > 0 =>
        /\ w.tail - w.head <= w.maxfiles
        /\ w.tail - w.head = IF Len(Given) < w.maxfiles THEN Len(Given) ELSE w.maxfiles
        /\ Live = SubSeq(Given, Len(Given) - (w.tail - w.head) + 1, Len(Given))
        /\ \A i, j \in 1..Len(Live) : i < j => Live[i].id < Live[j].id
        /\ \A i \in 1..Len(hist.rotlog) :
              hist.rotlog[i].removed =
                  IF Seeded + i - 1 < w.maxfiles THEN NoPath
                  ELSE Given[Seeded + i - w.maxfiles].path

\* The scan found more files than maxfiles, so that the ring has more slots
\* than maxfiles, and enough rotations followed for the ring to wrap.
C19_Witness ==
    /\ w.maxfiles = MaxKeep
    /\ Cardinality(hist.old) > w.maxfiles
    /\ Len(w.ring) > w.maxfiles
    /\ Len(hist.rotlog) >= MaxKeep + 2
    /\ w.tail > Len(w.ring)
    /\ hist.rotlog[MaxKeep + 1].removed = hist.rotlog[1].path

\* --------------------------------------------------------------- C20

\* The entries a directory may hold when it is scanned: rotated files with
\* ids 1..MaxOld, one more with the id MaxOld and another date, one whose
\* suffix is a negative integer, the active file (no integer suffix), a
\* file without the prefix, a directory named like a rotated file, and a
\* rotated file on which Lstat fails.
Entry(name, isdir, statok) == [name |-> name, isdir |-> isdir, statok |-> statok]

ScanUniverse ==
    {Entry(OldName(i), FALSE, TRUE) : i \in 1..MaxOld}
    \cup {Entry(RotName(DateSeq[1][1], DateSeq[1][2], DateSeq[1][3], MaxOld),
                FALSE, TRUE),
          Entry(OldName(0 - 1), FALSE, TRUE),
          Entry(ActivePath, FALSE, TRUE),
          Entry(NoiseFile, FALSE, TRUE),
          Entry(NoiseDir, TRUE, TRUE),
          Entry(OldName(MaxOld + 3), FALSE, FALSE)}

\* A directory and a retention count are chosen; nothing is scanned yet.
ScanInit ==
    /\ \E entries \in SUBSET ScanUniverse, maxfiles \in 0..MaxKeep :
          hist = [entries |-> entries, maxfiles |-> maxfiles, done |-> FALSE,
                  scan |-> [filist |-> << >>, cap |-> 0, maxid |-> 0]]
    /\ w = << >>
    /\ disk = << >>
    /\ dirs = {}
    /\ wq = << >>
    /\ clock = 1
    /\ pcw = "recv"
    /\ mu = 0
    /\ cond = [wait |-> 0, notify |-> 0]
    /\ pc = [c \in Callers |-> "idle"]
    /\ ticket = [c \in Callers |-> 0]
    /\ ret = [c \in Callers |-> "none"]
    /\ nfault = 0
    /\ env = Env(0, {}, 1, 0)
    /\ fds = << >>
    /\ calls = << >>

\* New scans the directory with collectFiles and builds the Writer.
Scan ==
    /\ ~hist.done
    /\ hist' = [hist EXCEPT !.done = TRUE,
                            !.scan = collectFiles(hist.entries, hist.maxfiles)]
    /\ w' = New(hist.entries, Limit, hist.maxfiles, FALSE)
    /\ UNCHANGED <<disk, dirs, wq, clock, pcw, mu, cond, pc, ticket, ret, nfault, env,
                   fds, calls>>

ScanSpec == ScanInit /\ [][Scan]_vars

\* The reference scanner's entries: regular files with the prefix and an
\* integer suffix.
Counted == {e \in hist.entries : e.name.pfx /\ e.name.num /\ ~e.isdir /\ e.statok}

\* What the reference scanner requires of the records returned: as many as
\* maxfiles allows, each the record of a counted entry of its own, in
\* ascending id order, and none with an id below that of a counted entry
\* left out; and no effect of the entries that are not counted.
ReturnsLargest(c) ==
    /\ Len(c.filist) = IF Cardinality(Counted) < hist.maxfiles
                       THEN Cardinality(Counted) ELSE hist.maxfiles
    /\ \A i \in 1..Len(c.filist) :
          /\ \E e \in Counted : c.filist[i] = fileinfo(e.name.id, e.name)
          /\ \A j \in 1..Len(c.filist) :
                /\ i < j => c.filist[i].id <= c.filist[j].id
                /\ i # j => c.filist[i].path # c.filist[j].path
          /\ \A e \in Counted :
                (\A j \in 1..Len(c.filist) : c.filist[j].path # e.name) =>
                    e.name.id <= c.filist[i].id
    /\ c = collectFiles(Counted, hist.maxfiles)
    /\ w.ring # << >> => SubSeq(w.ring, 1, w.tail) = c.filist

\* C20 as stated: collectFiles returns what the reference scanner returns,
\* and maxid is the largest id among the counted entries, 0 when there is
\* none.
\* Violated: maxid starts at 0 and only grows, so when every counted entry
\* has a negative suffix maxid is 0 and not the largest id.
C20_ScanEqualsReference ==
    hist.done =>
        /\ ReturnsLargest(hist.scan)
        /\ hist.scan.maxid =
              IF Counted = {} THEN 0 ELSE Max({e.name.id : e \in Counted})

\* C20 amended: as above, maxid being the largest id among the counted
\* entries and 0.
C20_ScanEqualsReferenceFromZero ==
    hist.done =>
        /\ ReturnsLargest(hist.scan)
        /\ hist.scan.maxid = Max({e.name.id : e \in Counted} \cup {0})

\* A directory with more counted files than maxfiles, two of them with the
\* same id, and every kind of entry that is not counted.
C20_Witness ==
    /\ hist.done
    /\ hist.entries = ScanUniverse
    /\ hist.maxfiles = MaxKeep
    /\ Len(hist.scan.filist) = MaxKeep
    /\ hist.scan.maxid = MaxOld

====
